---- MODULE Spec2Model ----
(***************************************************************************)
(* pdf-ai-annotator: main() and process_file() of pdf_ai_annotator.py as a *)
(* state machine.  Strings are sequences of one-character strings, so that *)
(* slicing, strip(), lower() and os.path.join are computed, not assumed.   *)
(***************************************************************************)
EXTENDS Integers, Sequences, FiniteSets, TLC

\* ------------------------------------------------------------- bounds
\* Number of distinct source documents that can be in the input directory.
MaxFiles == 2

\* ------------------------------------------------------------ strings
\* Python's None, as a value comparable with every string of the model.
None == <<"<None>">>

\* The outcome of resolving a path one of whose directories does not exist.
ENOENT == <<"<ENOENT>">>

\* The literal of line 157.
DOT_PDF == <<".", "p", "d", "f">>

\* The literal of lines 179 and 190.
YES == <<"y">>

\* s[-n:] : the last n characters, the whole string when it is shorter.
LastChars(s, n) ==
    SubSeq(s, (IF Len(s) > n THEN Len(s) - n + 1 ELSE 1), Len(s))

Whitespace == {" ", "\t", "\n"}

\* str.strip()
RECURSIVE lstrip(_)
lstrip(s) ==
    IF s # <<>> /\ Head(s) \in Whitespace THEN lstrip(Tail(s)) ELSE s

RECURSIVE rstrip(_)
rstrip(s) ==
    IF s # <<>> /\ s[Len(s)] \in Whitespace
    THEN rstrip(SubSeq(s, 1, Len(s) - 1))
    ELSE s

strip(s) == rstrip(lstrip(s))

\* str.lower(), on the letters the model's strings are made of.
lower_char(c) ==
    CASE c = "Y" -> "y"
      [] c = "N" -> "n"
      [] c = "E" -> "e"
      [] c = "S" -> "s"
      [] c = "P" -> "p"
      [] c = "D" -> "d"
      [] c = "F" -> "f"
      [] OTHER -> c

lower(s) == [i \in 1..Len(s) |-> lower_char(s[i])]

\* -------------------------------------------------------------- paths
Root == <<"/">>
DirIn == <<"/", "i">>
DirOut == <<"/", "o">>
DirMissing == <<"/", "n">>

\* The directories that exist; nothing in the program creates or removes one.
Dirs == {Root, DirIn, DirOut}

\* os.path.join(a, b) on POSIX: an absolute b discards a.
join(a, b) ==
    IF b # <<>> /\ Head(b) = "/" THEN b
    ELSE IF a = <<>> \/ a[Len(a)] = "/" THEN a \o b
    ELSE a \o <<"/">> \o b

\* The path of a list of components, from the root.
RECURSIVE ToPath(_)
ToPath(stack) ==
    IF stack = <<>> THEN Root
    ELSE IF Len(stack) = 1 THEN <<"/">> \o stack[1]
    ELSE ToPath(SubSeq(stack, 1, Len(stack) - 1)) \o <<"/">> \o stack[Len(stack)]

\* One step of the operating system's path walk: `comp` looked up in the
\* directory `stack` names.  Looking anything up in what is no directory fails.
Push(stack, comp) ==
    IF stack = <<ENOENT>> THEN stack
    ELSE IF comp = <<>> \/ comp = <<".">> THEN stack
    ELSE IF ToPath(stack) \notin Dirs THEN <<ENOENT>>
    ELSE IF comp = <<".", ".">>
         THEN (IF stack = <<>> THEN stack ELSE SubSeq(stack, 1, Len(stack) - 1))
    ELSE Append(stack, comp)

RECURSIVE Walk(_, _, _)
Walk(rest, stack, cur) ==
    IF rest = <<>> THEN Push(stack, cur)
    ELSE IF Head(rest) = "/" THEN Walk(Tail(rest), Push(stack, cur), <<>>)
    ELSE Walk(Tail(rest), stack, Append(cur, Head(rest)))

\* The file a path names (the working directory is the root), or ENOENT.
Resolve(path) ==
    LET stack == Walk(path, <<>>, <<>>)
    IN  IF path = <<>> \/ stack = <<ENOENT>> THEN ENOENT ELSE ToPath(stack)

\* os.path.isdir(d)
isdir(d) == Resolve(d) \in Dirs

\* os.path.dirname / basename of a resolved path.
RECURSIVE LastSlash(_)
LastSlash(p) ==
    IF p = <<>> THEN 0
    ELSE IF p[Len(p)] = "/" THEN Len(p)
    ELSE LastSlash(SubSeq(p, 1, Len(p) - 1))

basename(p) == SubSeq(p, LastSlash(p) + 1, Len(p))

dirname(p) ==
    IF LastSlash(p) <= 1 THEN Root ELSE SubSeq(p, 1, LastSlash(p) - 1)

\* ------------------------------------------------------ the documents
\* Names of the source documents that can lie in the input directory.
SourceNameList ==
    << <<"a", ".", "p", "d", "f">>,
       <<"b", ".", "p", "d", "f">>,
       <<"c", ".", "p", "d", "f">>,
       <<"d", ".", "p", "d", "f">> >>

SourceNames == {SourceNameList[i] : i \in 1..MaxFiles}

\* A PDF as it arrives: its content (named after the file) and no metadata.
NewPdf(name) ==
    [doc |-> name, title |-> <<>>, description |-> <<>>, subject |-> <<>>]

\* ------------------------------------------- the AI collaborator's answers
FileNames ==
    { <<>>,
      <<"x", ".", "p", "d", "f">>,
      <<"a", ".", "p", "d", "f">>,
      <<"x", ".", "t", "x", "t">>,
      <<"x", ".", "P", "D", "F">>,
      <<"p", "d", "f">> }

\* An annotation with summary, keywords and title filled in.
Complete(filename) ==
    [summary |-> <<"s">>, keywords |-> <<"k">>, title |-> <<"t">>,
     filename |-> filename]

\* class PdfAiAnnotations: four strings.  The answers tried: every filename
\* with the other fields filled in, each other field empty in turn, and all
\* four empty.
PdfAiAnnotations ==
    {Complete(f) : f \in FileNames}
    \cup {[Complete(<<"x", ".", "p", "d", "f">>) EXCEPT !.summary = <<>>],
          [Complete(<<"x", ".", "p", "d", "f">>) EXCEPT !.keywords = <<>>],
          [Complete(<<"x", ".", "p", "d", "f">>) EXCEPT !.title = <<>>],
          [summary |-> <<>>, keywords |-> <<>>, title |-> <<>>,
           filename |-> <<>>]}

\* response.parsed when the response did not parse: None.
NoResult ==
    [summary |-> None, keywords |-> None, title |-> None, filename |-> None]

\* What the operator can type at a prompt.
Answers ==
    { <<"y">>, <<" ", "Y", "\n">>, <<"n">>, <<>>, <<"y", "e", "s">> }

\* ------------------------------------------------------- configuration
InputDirs == {None, DirIn, DirMissing}
OutputDirs == {None, DirOut, DirIn, DirMissing}
FilePatterns == { <<"*", ".", "p", "d", "f">>, <<"*", "a", ".", "p", "d", "f">> }
\* Seconds, as argparse's type=int accepts them.
Durations == {-1, 1}

\* --------------------------------------------------------------- state
VARIABLES
    input_dir,        \* args.input_dir
    file_pattern,     \* args.file_pattern
    output_dir,       \* args.output_dir
    interval,         \* args.poll_interval
    pause_time,       \* args.task_pause_time
    cautious,         \* args.cautious
    fs,               \* the files on disk: resolved path -> PDF
    mpc,              \* where main is
    exit_status,      \* <<>> while the process runs, <<n>> once it has ended
    matching_files,   \* the files of the listing the for loop has yet to reach
    caught,           \* the except clause ran for the file last handed over
    pc,               \* where process_file is
    input_file_path,  \* process_file's argument
    result,           \* response.parsed
    pdf,              \* <<>>, or <<the open document>>
    output_file_path, \* line 174
    trace,            \* the calls process_file has made in this run
    fs_at_call,       \* the files on disk when process_file was entered
    relocated,        \* the paths holding the copy of a run that saved and removed
    since_ai          \* "never": no AI call yet; "called": none of line 277's
                      \* pauses has ended since the last one; "paused": one has

cfg == <<input_dir, file_pattern, output_dir, interval, pause_time, cautious>>
mainv == <<mpc, exit_status, matching_files, caught>>
locals == <<input_file_path, result, pdf, output_file_path>>
history == <<relocated, since_ai>>
vars == <<cfg, fs, mainv, pc, locals, trace, fs_at_call, history>>

\* One call made by process_file: what was called, with what, and whether it
\* returned (ok) or raised.
Event(op, arg, ok) == [op |-> op, arg |-> arg, ok |-> ok]

Calls(op) == {i \in 1..Len(trace) : trace[i].op = op}
OkCalls(op) == {i \in Calls(op) : trace[i].ok}

\* fnmatch of a name against a pattern of the shape "*<suffix>"; glob's "*"
\* does not match a leading dot.
Matches(name, pattern) ==
    /\ name # <<>>
    /\ Head(name) # "."
    /\ Len(name) >= Len(pattern) - 1
    /\ LastChars(name, Len(pattern) - 1) = Tail(pattern)

\* glob.glob(os.path.join(input_dir, file_pattern)): the matching entries of
\* the directory, each joined to the directory as it was given.
Listing ==
    { join(input_dir, basename(p)) :
        p \in {q \in DOMAIN fs :
                  /\ dirname(q) = Resolve(input_dir)
                  /\ Matches(basename(q), file_pattern)} }

WriteFile(files, path, content) ==
    [p \in DOMAIN files \cup {path} |->
        IF p = path THEN content ELSE files[p]]

RemoveFile(files, path) == [p \in DOMAIN files \ {path} |-> files[p]]

Init ==
    /\ input_dir \in InputDirs
    /\ file_pattern \in FilePatterns
    /\ output_dir \in OutputDirs
    /\ interval \in Durations
    /\ pause_time \in Durations
    /\ cautious \in BOOLEAN
    /\ \E present \in SUBSET SourceNames :
          fs = [p \in {join(DirIn, n) : n \in present} |->
                   NewPdf(basename(p))]
    /\ mpc = "check_dirs"
    /\ exit_status = <<>>
    /\ matching_files = {}
    /\ caught = FALSE
    /\ pc = "idle"
    /\ input_file_path = <<>>
    /\ result = NoResult
    /\ pdf = <<>>
    /\ output_file_path = <<>>
    /\ trace = <<>>
    /\ fs_at_call = fs
    /\ relocated = {}
    /\ since_ai = "never"

\* ---------------------------------------------------------------- main
\* Mutant: only the input directory is checked at startup.
CheckDirs_OutputUnchecked ==
    /\ mpc = "check_dirs"
    /\ IF input_dir = None \/ ~isdir(input_dir)
       THEN /\ mpc' = "exited"
            /\ exit_status' = <<1>>
       ELSE /\ mpc' = "glob"
            /\ UNCHANGED exit_status
    /\ UNCHANGED <<cfg, fs, matching_files, caught, pc, locals, trace,
                   fs_at_call, history>>

\* Lines 245-257: the four startup checks, each ending in exit(1).
CheckDirs ==
    /\ mpc = "check_dirs"
    /\ IF \/ input_dir = None
          \/ output_dir = None
          \/ ~isdir(input_dir)
          \/ ~isdir(output_dir)
       THEN /\ mpc' = "exited"
            /\ exit_status' = <<1>>
       ELSE /\ mpc' = "glob"
            /\ UNCHANGED exit_status
    /\ UNCHANGED <<cfg, fs, matching_files, caught, pc, locals, trace,
                   fs_at_call, history>>

\* Line 268: one directory listing, kept for the whole batch.
Glob ==
    /\ mpc = "glob"
    /\ matching_files' = Listing
    /\ mpc' = "for"
    /\ UNCHANGED <<cfg, fs, exit_status, caught, pc, locals, trace, fs_at_call,
                   history>>

\* Mutant: process_file is started for the next file without waiting for the
\* one in flight.
ForNext_NoWait ==
    /\ mpc \in {"for", "call"}
    /\ IF matching_files # {}
       THEN \E file_path \in matching_files :
               /\ mpc' = "call"
               /\ matching_files' = matching_files \ {file_path}
               /\ pc' = "upload"
               /\ input_file_path' = file_path
               /\ fs_at_call' = fs
               /\ trace' = <<>>
       ELSE /\ mpc = "for"
            /\ mpc' = "poll"
            /\ UNCHANGED <<matching_files, pc, input_file_path, fs_at_call,
                           trace>>
    /\ caught' = FALSE
    /\ UNCHANGED <<cfg, fs, exit_status, result, pdf, output_file_path, history>>

\* Mutant: the loop looks at the directory again before each file and skips
\* the files of the listing that are no longer there.
ForNext_SkipsVanished ==
    /\ mpc = "for"
    /\ IF {p \in matching_files : Resolve(p) \in DOMAIN fs} # {}
       THEN \E file_path \in {p \in matching_files : Resolve(p) \in DOMAIN fs} :
               /\ mpc' = "call"
               /\ matching_files' =
                     {p \in matching_files : Resolve(p) \in DOMAIN fs} \ {file_path}
               /\ pc' = "upload"
               /\ input_file_path' = file_path
               /\ fs_at_call' = fs
               /\ trace' = <<>>
       ELSE /\ mpc' = "poll"
            /\ matching_files' = {}
            /\ UNCHANGED <<pc, input_file_path, fs_at_call, trace>>
    /\ caught' = FALSE
    /\ UNCHANGED <<cfg, fs, exit_status, result, pdf, output_file_path, history>>

\* Mutant: the try of line 272 wraps the for loop, so that an exception ends
\* the batch.
ForNext_TryAroundLoop ==
    /\ mpc = "for"
    /\ IF matching_files # {} /\ ~caught
       THEN \E file_path \in matching_files :
               /\ mpc' = "call"
               /\ matching_files' = matching_files \ {file_path}
               /\ pc' = "upload"
               /\ input_file_path' = file_path
               /\ fs_at_call' = fs
               /\ trace' = <<>>
       ELSE /\ mpc' = "poll"
            /\ UNCHANGED <<matching_files, pc, input_file_path, fs_at_call,
                           trace>>
    /\ caught' = FALSE
    /\ UNCHANGED <<cfg, fs, exit_status, result, pdf, output_file_path, history>>

\* Lines 270-273: the next file of the listing is handed to process_file;
\* with none left (or none at all) the loop goes to its poll sleep.  glob
\* gives the files in no particular order: the next one is any of those left.
ForNext ==
    /\ mpc = "for"
    /\ IF matching_files # {}
       THEN \E file_path \in matching_files :
               /\ mpc' = "call"
               /\ matching_files' = matching_files \ {file_path}
               /\ pc' = "upload"
               /\ input_file_path' = file_path
               /\ fs_at_call' = fs
               /\ trace' = <<>>
       ELSE /\ mpc' = "poll"
            /\ UNCHANGED <<matching_files, pc, input_file_path, fs_at_call,
                           trace>>
    /\ caught' = FALSE
    /\ UNCHANGED <<cfg, fs, exit_status, result, pdf, output_file_path, history>>

\* process_file is left (by return or by exception): its frame is gone.
Unwind ==
    /\ pc' = "idle"
    /\ input_file_path' = <<>>
    /\ result' = NoResult
    /\ pdf' = <<>>
    /\ output_file_path' = <<>>
    /\ trace' = <<>>
    /\ fs_at_call' = fs

\* Mutant: the pause of line 277 sits in the except clause, a file that
\* returned is followed by the next one at once.
Returned_NoPause ==
    /\ mpc = "call"
    /\ pc = "returned"
    /\ mpc' = "for"
    /\ caught' = FALSE
    /\ Unwind
    /\ UNCHANGED <<cfg, fs, exit_status, matching_files, history>>

\* Line 273, process_file returned.
Returned ==
    /\ mpc = "call"
    /\ pc = "returned"
    /\ mpc' = "pause"
    /\ caught' = FALSE
    /\ Unwind
    /\ UNCHANGED <<cfg, fs, exit_status, matching_files, history>>

\* Lines 274-275: except Exception, the error is printed.
ExceptHandler ==
    /\ mpc = "call"
    /\ pc = "raised"
    /\ mpc' = "pause"
    /\ caught' = TRUE
    /\ Unwind
    /\ UNCHANGED <<cfg, fs, exit_status, matching_files, history>>

\* time.sleep(secs) raises ValueError for a negative length; nothing in main
\* catches it, and the interpreter ends with status 1.
Sleep(secs, next) ==
    /\ IF secs < 0
       THEN /\ mpc' = "crashed"
            /\ exit_status' = <<1>>
       ELSE /\ mpc' = next
            /\ UNCHANGED exit_status
    /\ UNCHANGED <<cfg, fs, matching_files, caught, pc, locals, trace,
                   fs_at_call, relocated>>

\* Line 277: the pause after each file.
Pause ==
    /\ mpc = "pause"
    /\ Sleep(pause_time, "for")
    /\ since_ai' = IF pause_time >= 0 /\ since_ai = "called" THEN "paused"
                   ELSE since_ai

\* Line 279: the wait before the next listing.
Poll ==
    /\ mpc = "poll"
    /\ Sleep(interval, "glob")
    /\ UNCHANGED since_ai

\* ----------------------------------------------------- the environment
\* While main sleeps, a document is dropped into the input directory.
FileArrives ==
    /\ mpc \in {"pause", "poll"}
    /\ \E n \in SourceNames :
          /\ join(DirIn, n) \notin DOMAIN fs
          /\ fs' = WriteFile(fs, join(DirIn, n), NewPdf(n))
    /\ fs_at_call' = fs'
    /\ UNCHANGED <<cfg, mainv, pc, locals, trace, history>>

\* While main sleeps, somebody else takes a document out of the input
\* directory.
FileVanishes ==
    /\ mpc \in {"pause", "poll"}
    /\ \E p \in DOMAIN fs :
          /\ dirname(p) = DirIn
          /\ fs' = RemoveFile(fs, p)
          /\ relocated' = relocated \ {p}
    /\ fs_at_call' = fs'
    /\ UNCHANGED <<cfg, mainv, pc, locals, trace, since_ai>>

\* -------------------------------------------------------- process_file
\* Mutant: the exception is swallowed and the run falls through to the
\* removal of the source.
Raise_FallsThrough(op, arg) ==
    /\ trace' = Append(trace, Event(op, arg, FALSE))
    /\ pdf' = <<>>
    /\ pc' = "remove"

\* An exception leaves process_file: the with block of line 167, if it was
\* entered, closes the document on the way out.
Raise(op, arg) ==
    /\ trace' = Append(trace, Event(op, arg, FALSE))
          \o (IF pdf # <<>> THEN <<Event("close", input_file_path, TRUE)>>
              ELSE <<>>)
    /\ pdf' = <<>>
    /\ pc' = "raised"

\* Line 137: client.files.upload(file=input_file_path), the first call to
\* the AI service; it reads the file, and raises when the file is not there.
Upload ==
    /\ pc = "upload"
    /\ \/ /\ Resolve(input_file_path) \in DOMAIN fs
          /\ trace' = Append(trace, Event("upload", input_file_path, TRUE))
          /\ pc' = "generate"
          /\ UNCHANGED pdf
       \/ Raise("upload", input_file_path)
    /\ since_ai' = "called"
    /\ UNCHANGED <<cfg, fs, mainv, input_file_path, result,
                   output_file_path, fs_at_call, relocated>>

\* Lines 140-144: client.models.generate_content(...); response.parsed is an
\* annotation, or None when the response could not be parsed.
Generate ==
    /\ pc = "generate"
    /\ \/ /\ result' \in PdfAiAnnotations \cup {NoResult}
          /\ trace' = Append(trace, Event("generate_content", input_file_path, TRUE))
          /\ pc' = "parse"
          /\ UNCHANGED pdf
       \/ /\ Raise("generate_content", input_file_path)
          /\ UNCHANGED result
    /\ UNCHANGED <<cfg, fs, mainv, input_file_path, output_file_path,
                   fs_at_call, history>>

\* Lines 147-151: the four fields are read; None has none of them.
Parse ==
    /\ pc = "parse"
    /\ IF result = NoResult
       THEN Raise("parsed", input_file_path)
       ELSE /\ pc' = "validate"
            /\ UNCHANGED <<trace, pdf>>
    /\ UNCHANGED <<cfg, fs, mainv, input_file_path, result,
                   output_file_path, fs_at_call, history>>

\* Line 153.
MissingField(r) ==
    \/ r.summary = <<>>
    \/ r.keywords = <<>>
    \/ r.filename = <<>>
    \/ r.title = <<>>

\* Mutant: the extension of the proposed filename is never checked.
WrongExtension_Unchecked(r) == FALSE

\* Mutant: the slice of line 157 written [:-4], the name without its last four
\* characters.
WrongExtension_SliceTypo(r) ==
    SubSeq(r.filename, 1, Len(r.filename) - 4) # DOT_PDF

\* Line 157.
WrongExtension(r) == LastChars(r.filename, 4) # DOT_PDF

\* Lines 153-159: the two checks, each ending in return.
Validate ==
    /\ pc = "validate"
    /\ IF MissingField(result) THEN pc' = "returned"
       ELSE IF WrongExtension(result) THEN pc' = "returned"
       ELSE pc' = "open"
    /\ UNCHANGED <<cfg, fs, mainv, locals, trace, fs_at_call, history>>

\* Line 167: pikepdf.open(input_file_path); it fails when there is no such
\* file, and may fail on the file it finds.
Open ==
    /\ pc = "open"
    /\ \/ /\ Resolve(input_file_path) \in DOMAIN fs
          /\ pdf' = <<fs[Resolve(input_file_path)]>>
          /\ trace' = Append(trace, Event("open", input_file_path, TRUE))
          /\ pc' = "open_metadata"
       \/ Raise("open", input_file_path)
    /\ UNCHANGED <<cfg, fs, mainv, input_file_path, result,
                   output_file_path, fs_at_call, history>>

\* Line 168: pdf.open_metadata().
OpenMetadata ==
    /\ pc = "open_metadata"
    /\ \/ /\ trace' = Append(trace, Event("open_metadata", input_file_path, TRUE))
          /\ pc' = "set_metadata"
          /\ UNCHANGED pdf
       \/ Raise("open_metadata", input_file_path)
    /\ UNCHANGED <<cfg, fs, mainv, input_file_path, result,
                   output_file_path, fs_at_call, history>>

\* Mutant: summary and keywords land in each other's field.
Annotate_Swapped(doc, r) ==
    [doc EXCEPT !.title = r.title,
                !.description = r.keywords,
                !.subject = r.summary]

\* Lines 169-171: the three fields written into the document.
Annotate(doc, r) ==
    [doc EXCEPT !.title = r.title,
                !.description = r.summary,
                !.subject = r.keywords]

\* Lines 169-171 and the end of the with block of line 168, which commits
\* the edit to the open document.
SetMetadata ==
    /\ pc = "set_metadata"
    /\ \/ /\ pdf' = <<Annotate(pdf[1], result)>>
          /\ trace' = Append(trace, Event("commit_metadata", input_file_path, TRUE))
          /\ pc' = "pending_save"
       \/ Raise("commit_metadata", input_file_path)
    /\ UNCHANGED <<cfg, fs, mainv, input_file_path, result,
                   output_file_path, fs_at_call, history>>

\* Mutant: the save confirmation is asked whatever the cautious flag says.
PendingSave_AlwaysAsks ==
    /\ pc = "pending_save"
    /\ output_file_path' = join(output_dir, result.filename)
    /\ pc' = "ask_save"
    /\ UNCHANGED <<cfg, fs, mainv, input_file_path, result, pdf, trace,
                   fs_at_call, history>>

\* Lines 174-177: the destination path, and the branch on cautious.
PendingSave ==
    /\ pc = "pending_save"
    /\ output_file_path' = join(output_dir, result.filename)
    /\ pc' = IF cautious THEN "ask_save" ELSE "save"
    /\ UNCHANGED <<cfg, fs, mainv, input_file_path, result, pdf, trace,
                   fs_at_call, history>>

\* Mutant: any answer that begins with y counts as a yes.
Affirmative_Prefix(answer) ==
    /\ lower(strip(answer)) # <<>>
    /\ Head(lower(strip(answer))) = "y"

\* Mutant: the answer is lowered but not stripped.
Affirmative_NoStrip(answer) == lower(answer) = YES

\* Lines 179 and 190: the answer that lets the run go on.
Affirmative(answer) == lower(strip(answer)) = YES

\* Mutant: the return of line 181 is missing, a declined save goes on to
\* pdf.save.
AskSave_NoReturn ==
    /\ pc = "ask_save"
    /\ \/ \E answer \in Answers :
             /\ trace' = Append(trace, Event("input", <<"save", answer>>, TRUE))
             /\ pc' = "save"
             /\ UNCHANGED pdf
       \/ Raise("input", <<"save", None>>)
    /\ UNCHANGED <<cfg, fs, mainv, input_file_path, result,
                   output_file_path, fs_at_call, history>>

\* Lines 178-181: the save confirmation; a decline returns from inside the
\* with block, which closes the document.  input() raises at end of input.
AskSave ==
    /\ pc = "ask_save"
    /\ \/ \E answer \in Answers :
             IF Affirmative(answer)
             THEN /\ trace' = Append(trace, Event("input", <<"save", answer>>, TRUE))
                  /\ pc' = "save"
                  /\ UNCHANGED pdf
             ELSE /\ trace' = trace \o <<Event("input", <<"save", answer>>, TRUE),
                                         Event("close", input_file_path, TRUE)>>
                  /\ pc' = "returned"
                  /\ pdf' = <<>>
       \/ Raise("input", <<"save", None>>)
    /\ UNCHANGED <<cfg, fs, mainv, input_file_path, result,
                   output_file_path, fs_at_call, history>>

\* pdf.save(path) can succeed: the path's directory exists, the path is no
\* directory, and it is not the file the document was opened from (pikepdf
\* refuses to overwrite its input).
CanSave(path) ==
    /\ Resolve(path) # ENOENT
    /\ Resolve(path) \notin Dirs
    /\ Resolve(path) # Resolve(input_file_path)

\* Mutant: pdf.save sits after the with block of line 167, on a document
\* already closed.
Save_AfterClose ==
    /\ pc = "save"
    /\ \/ /\ CanSave(output_file_path)
          /\ fs' = WriteFile(fs, Resolve(output_file_path), pdf[1])
          /\ relocated' = relocated \ {Resolve(output_file_path)}
          /\ trace' = trace \o <<Event("close", input_file_path, TRUE),
                                 Event("save", output_file_path, TRUE)>>
          /\ pdf' = <<>>
          /\ pc' = IF cautious THEN "ask_delete" ELSE "remove"
       \/ /\ Raise("save", output_file_path)
          /\ UNCHANGED <<fs, relocated>>
    /\ UNCHANGED <<cfg, mainv, input_file_path, result, output_file_path,
                   fs_at_call, since_ai>>

\* Mutant: a failed save is swallowed and the run goes on to the delete step.
Save_ErrorSwallowed ==
    /\ pc = "save"
    /\ \/ /\ CanSave(output_file_path)
          /\ fs' = WriteFile(fs, Resolve(output_file_path), pdf[1])
          /\ relocated' = relocated \ {Resolve(output_file_path)}
          /\ trace' = trace \o <<Event("save", output_file_path, TRUE),
                                 Event("close", input_file_path, TRUE)>>
       \/ /\ trace' = trace \o <<Event("save", output_file_path, FALSE),
                                 Event("close", input_file_path, TRUE)>>
          /\ UNCHANGED <<fs, relocated>>
    /\ pdf' = <<>>
    /\ pc' = IF cautious THEN "ask_delete" ELSE "remove"
    /\ UNCHANGED <<cfg, mainv, input_file_path, result, output_file_path,
                   fs_at_call, since_ai>>

\* Lines 184-185, and the end of the with block of line 167.
Save ==
    /\ pc = "save"
    /\ \/ /\ CanSave(output_file_path)
          /\ fs' = WriteFile(fs, Resolve(output_file_path), pdf[1])
          /\ relocated' = relocated \ {Resolve(output_file_path)}
          /\ trace' = trace \o <<Event("save", output_file_path, TRUE),
                                 Event("close", input_file_path, TRUE)>>
          /\ pdf' = <<>>
          /\ pc' = IF cautious THEN "ask_delete" ELSE "remove"
       \/ /\ Raise("save", output_file_path)
          /\ UNCHANGED <<fs, relocated>>
    /\ UNCHANGED <<cfg, mainv, input_file_path, result, output_file_path,
                   fs_at_call, since_ai>>

\* Mutant: a declined delete confirmation does not return.
AskDelete_NoReturn ==
    /\ pc = "ask_delete"
    /\ \/ \E answer \in Answers :
             /\ trace' = Append(trace, Event("input", <<"delete", answer>>, TRUE))
             /\ pc' = "remove"
             /\ UNCHANGED pdf
       \/ Raise("input", <<"delete", None>>)
    /\ UNCHANGED <<cfg, fs, mainv, input_file_path, result,
                   output_file_path, fs_at_call, history>>

\* Lines 188-192: the delete confirmation.
AskDelete ==
    /\ pc = "ask_delete"
    /\ \/ \E answer \in Answers :
             /\ trace' = Append(trace, Event("input", <<"delete", answer>>, TRUE))
             /\ pc' = IF Affirmative(answer) THEN "remove" ELSE "returned"
             /\ UNCHANGED pdf
       \/ Raise("input", <<"delete", None>>)
    /\ UNCHANGED <<cfg, fs, mainv, input_file_path, result,
                   output_file_path, fs_at_call, history>>

\* Mutant: os.remove is given the destination path.
Remove_Destination ==
    /\ pc = "remove"
    /\ \/ /\ Resolve(output_file_path) \in DOMAIN fs
          /\ fs' = RemoveFile(fs, Resolve(output_file_path))
          /\ relocated' = relocated \ {Resolve(output_file_path)}
          /\ trace' = Append(trace, Event("remove", output_file_path, TRUE))
          /\ pc' = "returned"
          /\ UNCHANGED pdf
       \/ /\ Raise("remove", output_file_path)
          /\ UNCHANGED <<fs, relocated>>
    /\ UNCHANGED <<cfg, mainv, input_file_path, result, output_file_path,
                   fs_at_call, since_ai>>

\* Lines 195-196: os.remove(input_file_path), then the function ends.
Remove ==
    /\ pc = "remove"
    /\ \/ /\ Resolve(input_file_path) \in DOMAIN fs
          /\ fs' = RemoveFile(fs, Resolve(input_file_path))
          /\ relocated' = (relocated \ {Resolve(input_file_path)})
                              \cup {Resolve(output_file_path)}
          /\ trace' = Append(trace, Event("remove", input_file_path, TRUE))
          /\ pc' = "returned"
          /\ UNCHANGED pdf
       \/ /\ Raise("remove", input_file_path)
          /\ UNCHANGED <<fs, relocated>>
    /\ UNCHANGED <<cfg, mainv, input_file_path, result, output_file_path,
                   fs_at_call, since_ai>>

\* ------------------------------------------------------- specification
ProcessFile ==
    \/ Upload
    \/ Generate
    \/ Parse
    \/ Validate
    \/ Open
    \/ OpenMetadata
    \/ SetMetadata
    \/ PendingSave
    \/ AskSave
    \/ Save
    \/ AskDelete
    \/ Remove

Main ==
    \/ CheckDirs
    \/ Glob
    \/ ForNext
    \/ Returned
    \/ ExceptHandler
    \/ Pause
    \/ Poll

Environment ==
    \/ FileArrives
    \/ FileVanishes

Next == Main \/ ProcessFile \/ Environment

Spec == Init /\ [][Next]_vars

\* The interpreter runs the one thread there is: whenever the program has a
\* next step, it takes it.
FairSpec == Spec /\ WF_vars(Main \/ ProcessFile)

\* ------------------------------------------- src/pdf-ai-annotator.py
\* The script of src/pdf-ai-annotator.py.  Its arguments are positional, so
\* that argparse leaves none of them None; it reads the annotation out of the
\* JSON text of the response; from pikepdf.open on (lines 84-112) and in its
\* loop (lines 172-185) it is, line for line, the script modelled above.

\* response.text that is not JSON.
NotJson ==
    [summary |-> <<"<NotJson>">>, keywords |-> <<"<NotJson>">>,
     title |-> <<"<NotJson>">>, filename |-> <<"<NotJson>">>]

\* What json.loads can give: an object with the four keys, or with some of
\* them absent (None here); {} is the object with none.
JsonObjects ==
    { Complete(<<"x", ".", "p", "d", "f">>),
      Complete(<<"x", ".", "t", "x", "t">>),
      [Complete(<<"x", ".", "p", "d", "f">>) EXCEPT !.title = <<>>],
      [Complete(<<"x", ".", "p", "d", "f">>) EXCEPT !.filename = <<>>],
      [Complete(<<"x", ".", "p", "d", "f">>) EXCEPT !.filename = None],
      [Complete(<<"x", ".", "p", "d", "f">>) EXCEPT !.summary = None],
      NoResult }

\* Lines 69-72: result.get(key, "").
get(d, key) == IF d[key] = None THEN <<>> ELSE d[key]

InitVariant ==
    /\ Init
    /\ input_dir # None
    /\ output_dir # None

\* Lines 159-164: the two startup checks.
CheckDirsVariant ==
    /\ mpc = "check_dirs"
    /\ IF ~isdir(input_dir) \/ ~isdir(output_dir)
       THEN /\ mpc' = "exited"
            /\ exit_status' = <<1>>
       ELSE /\ mpc' = "glob"
            /\ UNCHANGED exit_status
    /\ UNCHANGED <<cfg, fs, matching_files, caught, pc, locals, trace,
                   fs_at_call, history>>

\* Lines 61-65: client.models.generate_content(...), whose response.text
\* line 68 parses.
GenerateVariant ==
    /\ pc = "generate"
    /\ \/ /\ result' \in JsonObjects \cup {NotJson}
          /\ trace' = Append(trace, Event("generate_content", input_file_path, TRUE))
          /\ pc' = "parse"
          /\ UNCHANGED pdf
       \/ /\ Raise("generate_content", input_file_path)
          /\ UNCHANGED result
    /\ UNCHANGED <<cfg, fs, mainv, input_file_path, output_file_path,
                   fs_at_call, history>>

\* Line 68: json.loads(response.text) raises on text that is not JSON.
LoadsVariant ==
    /\ pc = "parse"
    /\ IF result = NotJson
       THEN Raise("loads", input_file_path)
       ELSE /\ pc' = "validate"
            /\ UNCHANGED <<trace, pdf>>
    /\ UNCHANGED <<cfg, fs, mainv, input_file_path, result,
                   output_file_path, fs_at_call, history>>

\* Lines 69-76: the four fields are read with "" for an absent key, and the
\* run returns if one of them is ""; line 84 follows.
ValidateVariant ==
    /\ pc = "validate"
    /\ IF \/ get(result, "summary") = <<>>
          \/ get(result, "keywords") = <<>>
          \/ get(result, "filename") = <<>>
          \/ get(result, "title") = <<>>
       THEN pc' = "returned"
       ELSE pc' = "open"
    /\ UNCHANGED <<cfg, fs, mainv, locals, trace, fs_at_call, history>>

ProcessFileVariant ==
    \/ Upload
    \/ GenerateVariant
    \/ LoadsVariant
    \/ ValidateVariant
    \/ Open
    \/ OpenMetadata
    \/ SetMetadata
    \/ PendingSave
    \/ AskSave
    \/ Save
    \/ AskDelete
    \/ Remove

MainVariant ==
    \/ CheckDirsVariant
    \/ Glob
    \/ ForNext
    \/ Returned
    \/ ExceptHandler
    \/ Pause
    \/ Poll

NextVariant == MainVariant \/ ProcessFileVariant \/ Environment

SpecVariant == InitVariant /\ [][NextVariant]_vars

\* ------------------------------------- filenames that are paths
\* The script of src/pdf_ai_annotator.py again, with an AI service whose
\* filenames are paths: one climbing out of the directory it is joined to,
\* one absolute.  Both end in ".pdf".
PathAnnotations ==
    { Complete(<<".", ".", "/", "x", ".", "p", "d", "f">>),
      Complete(<<"/", "i", "/", "x", ".", "p", "d", "f">>),
      [Complete(<<".", ".", "/", "x", ".", "p", "d", "f">>) EXCEPT !.title = <<>>] }

\* Lines 140-144, as Generate.
GeneratePaths ==
    /\ pc = "generate"
    /\ \/ /\ result' \in PathAnnotations \cup {NoResult}
          /\ trace' = Append(trace, Event("generate_content", input_file_path, TRUE))
          /\ pc' = "parse"
          /\ UNCHANGED pdf
       \/ /\ Raise("generate_content", input_file_path)
          /\ UNCHANGED result
    /\ UNCHANGED <<cfg, fs, mainv, input_file_path, output_file_path,
                   fs_at_call, history>>

ProcessFilePaths ==
    \/ Upload
    \/ GeneratePaths
    \/ Parse
    \/ Validate
    \/ Open
    \/ OpenMetadata
    \/ SetMetadata
    \/ PendingSave
    \/ AskSave
    \/ Save
    \/ AskDelete
    \/ Remove

NextPaths == Main \/ ProcessFilePaths \/ Environment

SpecPaths == Init /\ [][NextPaths]_vars

\* ============================================================ claims
\* What the claims call things, stated apart from the code's own tests.

\* s ends with the literal suffix ".pdf".
EndsWithPdf(s) ==
    /\ Len(s) >= 4
    /\ \A i \in 1..4 : s[Len(s) - 4 + i] = DOT_PDF[i]

\* An annotation with a field empty or a filename without the suffix.
InvalidAnnotation(r) ==
    \/ r.summary = <<>>
    \/ r.keywords = <<>>
    \/ r.title = <<>>
    \/ r.filename = <<>>
    \/ ~EndsWithPdf(r.filename)

\* The answers that are a yes, and those that are not.
AffirmativeAnswers == {<<"y">>, <<" ", "Y", "\n">>}
DecliningAnswers == {<<"n">>, <<>>, <<"y", "e", "s">>}

\* The operator has answered the named confirmation with one of `answers`.
Answered(prompt, answers) ==
    \E i \in OkCalls("input") :
        trace[i].arg[1] = prompt /\ trace[i].arg[2] \in answers

\* The source file and the destination file of the run, as the disk sees them.
Source == Resolve(input_file_path)
Destination == Resolve(output_file_path)

\* The source document carrying the annotation's three fields.
Annotated ==
    [doc |-> fs_at_call[Source].doc,
     title |-> result.title,
     description |-> result.summary,
     subject |-> result.keywords]

\* C1: once the AI collaborator has returned an annotation with an empty
\* field or a filename that does not end in ".pdf", process_file returns
\* without opening the document, saving or removing anything: the files on
\* disk are those of the moment it was called.
C1_InvalidAnnotationTouchesNothing ==
    (result # NoResult /\ InvalidAnnotation(result)) =>
        /\ pc \in {"parse", "validate", "returned"}
        /\ Calls("open") = {}
        /\ Calls("save") = {}
        /\ Calls("remove") = {}
        /\ pdf = <<>>
        /\ fs = fs_at_call

\* A run that returned on a filename with the wrong extension, all four
\* fields being non-empty.
C1_Witness ==
    /\ pc = "returned"
    /\ result # NoResult
    /\ result.summary # <<>> /\ result.keywords # <<>> /\ result.title # <<>>
    /\ result.filename = <<"x", ".", "t", "x", "t">>

\* C2: in both modes, os.remove on the source is invoked only after pdf.save
\* to the destination path of the same run has returned; when the removal is
\* invoked the destination file exists.
C2_RemoveOnlyAfterSave ==
    (pc = "remove" \/ Calls("remove") # {}) =>
        /\ \E j \in OkCalls("save") :
              /\ trace[j].arg = output_file_path
              /\ \A i \in Calls("remove") : j < i
        /\ Destination \in DOMAIN fs

\* A run that removed its source.
C2_Witness ==
    /\ OkCalls("remove") # {}
    /\ Source \notin DOMAIN fs

\* C3: in cautious mode, a save confirmation answered with anything but a yes
\* ends the run: no save, no removal, no second confirmation, and the disk as
\* it was, the source file included.
C3_DeclineAtSaveGate ==
    (cautious /\ Answered("save", DecliningAnswers)) =>
        /\ pc = "returned"
        /\ Calls("save") = {}
        /\ Calls("remove") = {}
        /\ Cardinality(Calls("input")) = 1
        /\ fs = fs_at_call
        /\ Source \in DOMAIN fs
        /\ Destination \notin DOMAIN fs \/ Destination \in DOMAIN fs_at_call

\* A cautious run that was declined at the save confirmation with "yes".
C3_Witness ==
    /\ cautious
    /\ pc = "returned"
    /\ Answered("save", {<<"y", "e", "s">>})

\* C4: in cautious mode, a yes to the save confirmation followed by a decline
\* of the delete confirmation ends the run with the document saved exactly
\* once and the source never removed: both files are on disk.
C4_DeclineAtDeleteGate ==
    (cautious /\ Answered("save", AffirmativeAnswers)
              /\ Answered("delete", DecliningAnswers)) =>
        /\ pc = "returned"
        /\ Cardinality(Calls("save")) = 1
        /\ Cardinality(OkCalls("save")) = 1
        /\ Calls("remove") = {}
        /\ Source \in DOMAIN fs
        /\ fs[Source] = fs_at_call[Source]
        /\ Destination \in DOMAIN fs
        /\ fs[Destination] = Annotated

\* A cautious run, saved and then declined at the delete confirmation.
C4_Witness ==
    /\ cautious
    /\ pc = "returned"
    /\ Answered("save", {<<"y">>})
    /\ Answered("delete", {<<"n">>})
    /\ Destination # Source

\* C5: without the cautious flag process_file never asks the operator
\* anything, and a run on a valid annotation that ends without an exception
\* has saved the document once and removed the source once.
C5_NonCautiousCompletes ==
    ~cautious =>
        /\ pc \notin {"ask_save", "ask_delete"}
        /\ Calls("input") = {}
        /\ (pc = "returned" /\ ~InvalidAnnotation(result)) =>
              /\ Cardinality(Calls("save")) = 1
              /\ Cardinality(OkCalls("save")) = 1
              /\ Cardinality(Calls("remove")) = 1
              /\ Cardinality(OkCalls("remove")) = 1
              /\ Destination \in DOMAIN fs
              /\ Source \notin DOMAIN fs

\* A non-cautious run on a valid annotation that has returned.
C5_Witness ==
    /\ ~cautious
    /\ pc = "returned"
    /\ ~InvalidAnnotation(result)
    /\ OkCalls("remove") # {}

\* Some call of `ops` made in this run raised.
FailedCall(ops) == \E i \in 1..Len(trace) : trace[i].op \in ops /\ ~trace[i].ok

\* C6: an exception of process_file is caught by the loop, which then goes on
\* from the pause of that iteration to the loop head with the rest of the
\* listing intact, and hands the next remaining file to process_file.
C6_LoopResilience ==
    [][/\ (mpc = "call" /\ pc = "raised") =>
              (mpc' = "pause" /\ caught' /\ matching_files' = matching_files)
       /\ (mpc = "pause" /\ caught /\ matching_files # {}) =>
              (mpc' \in {"pause", "for"} /\ matching_files' = matching_files)
       /\ (mpc = "for" /\ matching_files # {}) =>
              /\ mpc' = "call"
              /\ pc' = "upload"
              /\ input_file_path' \in matching_files
              /\ matching_files' = matching_files \ {input_file_path'}]_vars

\* C7: a completed run has opened the document at the source path, written
\* title, summary and keywords of the annotation into dc:title,
\* dc:description and dc:subject, saved it at join(output_dir, filename) and
\* removed the source path: the disk differs from the disk at the call by
\* exactly that new file and that removal.
C7_ApplyResult ==
    OkCalls("remove") # {} =>
        /\ Cardinality(Calls("open")) = 1
        /\ \A i \in Calls("open") : trace[i].arg = input_file_path
        /\ Cardinality(Calls("save")) = 1
        /\ \A i \in Calls("save") :
              trace[i].arg = join(output_dir, result.filename)
        /\ Cardinality(Calls("remove")) = 1
        /\ \A i \in Calls("remove") : trace[i].arg = input_file_path
        /\ fs = RemoveFile(
                   WriteFile(fs_at_call,
                             Resolve(join(output_dir, result.filename)),
                             Annotated),
                   Source)

\* A completed run into the output directory, the annotated copy on disk.
C7_Witness ==
    /\ pc = "returned"
    /\ OkCalls("remove") # {}
    /\ output_dir = DirOut
    /\ result.filename = <<"x", ".", "p", "d", "f">>
    /\ join(DirOut, <<"x", ".", "p", "d", "f">>) \in DOMAIN fs
    /\ fs[join(DirOut, <<"x", ".", "p", "d", "f">>)].title = <<"t">>
    /\ fs[join(DirOut, <<"x", ".", "p", "d", "f">>)].description = <<"s">>
    /\ fs[join(DirOut, <<"x", ".", "p", "d", "f">>)].subject = <<"k">>

\* C8: when the AI call, the parsing of its result, the opening of the
\* document, the metadata edit or the save raises, the source file is never
\* removed in that run and stays as it was; when the exception comes before
\* the save step, no save is attempted and the disk is unchanged.
C8_ErrorsLeaveOriginal ==
    /\ FailedCall({"upload", "generate_content", "parsed", "open",
                   "open_metadata", "commit_metadata", "save"}) =>
          /\ pc = "raised"
          /\ Calls("remove") = {}
          /\ Source \in DOMAIN fs_at_call =>
                (Source \in DOMAIN fs /\ fs[Source] = fs_at_call[Source])
    /\ FailedCall({"upload", "generate_content", "parsed", "open",
                   "open_metadata", "commit_metadata"}) =>
          /\ Calls("save") = {}
          /\ fs = fs_at_call

\* A run whose save raised after the document had been opened and edited.
C8_Witness ==
    /\ pc = "raised"
    /\ FailedCall({"save"})
    /\ OkCalls("commit_metadata") # {}
    /\ Source \in DOMAIN fs

\* The input or the output directory is not given or does not exist.
BadDirectories ==
    \/ input_dir = None
    \/ output_dir = None
    \/ input_dir \notin Dirs
    \/ output_dir \notin Dirs

\* C9: with the input or output directory missing or nonexistent, main never
\* gets past its startup checks: it ends with a non-zero status before any
\* listing, and process_file is never entered, so nothing is uploaded,
\* opened, saved or removed.
C9_StartupConfigurationError ==
    BadDirectories =>
        /\ mpc \in {"check_dirs", "exited"}
        /\ mpc = "exited" => (exit_status # <<>> /\ exit_status[1] # 0)
        /\ matching_files = {}
        /\ pc = "idle"
        /\ trace = <<>>

\* main has exited on a nonexistent output directory, the input directory
\* being fine and holding a document.
C9_Witness ==
    /\ mpc = "exited"
    /\ input_dir = DirIn
    /\ output_dir = DirMissing
    /\ DOMAIN fs # {}

\* C10: once the startup directory checks have passed, main is never in a
\* terminated state.
C10_NoExitAfterStartup ==
    ~BadDirectories => mpc \notin {"exited", "crashed"}


\* C11: process_file goes on to pikepdf.open exactly when summary, keywords,
\* title and filename are all non-empty and the filename's last four
\* characters are ".pdf"; "x.PDF" and the three-character "pdf" are rejected.
C11_ValidityPredicate ==
    (result # NoResult /\ pc \notin {"parse", "validate"}) =>
        ((pc = "open" \/ Calls("open") # {}) <=> ~InvalidAnnotation(result))

\* A run that went on to open the document on a filename that is nothing but
\* a name ending in ".pdf".
C11_Witness ==
    /\ pc = "open"
    /\ result = Complete(<<"a", ".", "p", "d", "f">>)

\* The pass of a file through process_file has ended.
Ended == pc \in {"returned", "raised"}

\* The disk after a run that saved the copy and removed the source.
DiskRelocated == RemoveFile(WriteFile(fs_at_call, Destination, Annotated), Source)

\* The disk after a run that saved the copy and left the source.
DiskDuplicated == WriteFile(fs_at_call, Destination, Annotated)

\* C12 as stated: when the pass of a file has ended, the source has been
\* removed (its copy saved) or the disk is as it was at the call; source and
\* copy both on disk is a state of the window between save and delete only.
C12_RemovedOrUntouched ==
    /\ Ended => (fs = fs_at_call \/ (OkCalls("remove") # {} /\ fs = DiskRelocated))
    /\ (OkCalls("save") # {} /\ OkCalls("remove") = {}) =>
          pc \in {"ask_delete", "remove"}

\* C12 as amended: an ended pass has removed the source (its copy saved), or
\* left the disk as it was, or - when the delete confirmation was declined or
\* raised, or os.remove raised - left the source untouched beside its saved
\* copy; outside such an ending, source and copy are both on disk only in
\* the window between save and delete.
C12_RemovedUntouchedOrDuplicated ==
    /\ Ended =>
          IF OkCalls("remove") # {} THEN fs = DiskRelocated
          ELSE IF OkCalls("save") # {}
          THEN /\ fs = DiskDuplicated
               /\ fs[Source] = fs_at_call[Source]
               /\ \/ Answered("delete", DecliningAnswers)
                  \/ FailedCall({"input", "remove"})
          ELSE fs = fs_at_call
    /\ (~Ended /\ OkCalls("save") # {} /\ OkCalls("remove") = {}) =>
          pc \in {"ask_delete", "remove"}

\* A non-cautious pass that ended with source and copy both on disk, os.remove
\* having raised.
C12_Witness ==
    /\ ~cautious
    /\ pc = "raised"
    /\ FailedCall({"remove"})
    /\ Source \in DOMAIN fs
    /\ Destination \in DOMAIN fs
    /\ Destination # Source


\* C13: whatever configuration passed the startup checks, no listing taken
\* by a poll cycle - the files that cycle passes to process_file - holds the
\* copy left by an earlier run that reached Completed.
C13_NoReprocessing ==
    [][(mpc = "glob" /\ mpc' = "for") =>
          \A p \in matching_files' : Resolve(p) \notin relocated]_vars


\* The files of the input directory whose name matches the pattern.
PresentAndMatching ==
    {q \in DOMAIN fs : /\ dirname(q) = Resolve(input_dir)
                       /\ Matches(basename(q), file_pattern)}

\* C14: the loop keeps no record of earlier attempts.  Every listing holds
\* every file then present and matching, whatever happened to it before;
\* every file of a listing has been passed to process_file when the loop
\* goes back to polling; and every pass starts with a call to the AI service.
C14_RetryOnNextPoll ==
    /\ [][(mpc = "glob" /\ mpc' = "for") =>
             \A q \in PresentAndMatching :
                \E p \in matching_files' : Resolve(p) = q]_vars
    /\ [][(mpc = "for" /\ matching_files' # matching_files) =>
             /\ mpc' = "call"
             /\ pc' = "upload"
             /\ matching_files = matching_files' \cup {input_file_path'}]_vars
    /\ [](mpc \in {"poll", "glob"} => matching_files = {})
    /\ [](pc \notin {"idle", "upload"} =>
             (trace # <<>> /\ trace[1].op = "upload"))

\* A file is passed to process_file while the copy saved by an earlier run on
\* the same document, one that did not go on to remove the source, is still
\* in the output directory.
C14_Witness ==
    /\ pc = "upload"
    /\ Source \in DOMAIN fs
    /\ \E q \in DOMAIN fs \ relocated :
          /\ dirname(q) = DirOut
          /\ fs[q].doc = fs[Source].doc


\* C15: a batch is the one listing.  The snapshot changes only when it is
\* taken and when its next file is handed to process_file, so that a file
\* arriving during the batch is not processed in it and a file that has
\* vanished is still handed over; the next listing is taken only when the
\* snapshot is used up; and the run on a vanished file raises at once and is
\* caught for that file alone, the loop going on to its pause.
C15_ListingSnapshot ==
    /\ [][matching_files' # matching_files =>
             \/ mpc = "glob" /\ mpc' = "for"
             \/ /\ mpc = "for" /\ mpc' = "call"
                /\ input_file_path' \in matching_files
                /\ matching_files' = matching_files \ {input_file_path'}]_vars
    /\ [][(mpc = "for" /\ mpc' # "for") =>
             IF matching_files = {} THEN mpc' = "poll" ELSE mpc' = "call"]_vars
    /\ [](mpc = "glob" => matching_files = {})
    /\ []((pc # "idle" /\ Source \notin DOMAIN fs_at_call) =>
             /\ pc \in {"upload", "raised"}
             /\ fs = fs_at_call)
    /\ [][(mpc = "call" /\ pc = "raised" /\ mpc' # mpc) =>
             (mpc' = "pause" /\ caught' /\ matching_files' = matching_files)]_vars

\* A file of the snapshot was taken away while the loop paused; its turn
\* came, the upload raised, and other files of the snapshot are still to come.
C15_Witness ==
    /\ pc = "raised"
    /\ Source \notin DOMAIN fs
    /\ trace = <<Event("upload", input_file_path, FALSE)>>
    /\ matching_files # {}


\* C16: at most one file is in flight.  process_file runs only while main
\* is inside the call of line 273; a file is handed over only when no run is
\* in flight, its run starting from nothing; main leaves the call only when
\* the run has ended; and every AI call of a run is for the file of that run.
C16_StrictlySequential ==
    /\ [](pc # "idle" <=> mpc = "call")
    /\ [][(input_file_path' # input_file_path /\ input_file_path' # <<>>) =>
             /\ pc = "idle"
             /\ input_file_path = <<>>
             /\ pc' = "upload"
             /\ trace' = <<>>]_vars
    /\ [][(mpc = "call" /\ mpc' # "call") => (Ended /\ pc' = "idle")]_vars
    /\ [](\A i \in Calls("upload") \cup Calls("generate_content") :
             trace[i].arg = input_file_path)

\* The AI call for a file is about to start after the run on an earlier file
\* has ended.
C16_Witness ==
    /\ pc = "upload"
    /\ since_ai = "paused"
    /\ trace = <<>>


\* The confirmations asked in this run, by prompt.
Asked(prompt) == {i \in Calls("input") : trace[i].arg[1] = prompt}

\* The confirmations of this run answered with an affirmative answer.
Affirmed(prompt) ==
    {i \in Asked(prompt) : trace[i].ok /\ trace[i].arg[2] \in AffirmativeAnswers}

\* C17: in cautious mode the save confirmation comes after the metadata edit
\* and before any save, and no save comes without it; the delete confirmation
\* comes only after an affirmed save confirmation and a save that returned;
\* each is asked at most once; and with both affirmed the run calls save once
\* and os.remove once, on the source.
C17_ConfirmationOrder ==
    cautious =>
        /\ \A i \in Asked("save") :
              /\ \E j \in OkCalls("commit_metadata") : j < i
              /\ \A k \in Calls("save") : i < k
        /\ \A k \in Calls("save") : \E i \in Affirmed("save") : i < k
        /\ \A i \in Asked("delete") :
              /\ \E j \in Affirmed("save") : \E k \in OkCalls("save") :
                    j < k /\ k < i
              /\ \A k \in Calls("remove") : i < k
        /\ \A k \in Calls("remove") : \E i \in Affirmed("delete") : i < k
        /\ Cardinality(Asked("save")) <= 1
        /\ Cardinality(Asked("delete")) <= 1
        /\ Calls("input") = Asked("save") \cup Asked("delete")
        /\ (Affirmed("save") # {} /\ Affirmed("delete") # {}) =>
              /\ Cardinality(OkCalls("save")) = 1
              /\ Cardinality(Calls("save")) = 1
              /\ pc \in {"remove", "returned", "raised"}
              /\ pc # "remove" =>
                    /\ Cardinality(Calls("remove")) = 1
                    /\ \A k \in Calls("remove") : trace[k].arg = input_file_path
              /\ pc = "returned" => Source \notin DOMAIN fs

\* A cautious run with both confirmations affirmed has saved the copy and
\* removed the source.
C17_Witness ==
    /\ cautious
    /\ pc = "returned"
    /\ Affirmed("save") # {}
    /\ Affirmed("delete") # {}
    /\ OkCalls("remove") # {}


\* The answer is a single y or Y with nothing but whitespace around it.
IsYes(answer) ==
    \E i \in 1..Len(answer) :
       /\ answer[i] \in {"y", "Y"}
       /\ \A j \in 1..Len(answer) : j # i => answer[j] \in {" ", "\t", "\n"}

\* C18: at either confirmation the run goes on - to pdf.save after the save
\* prompt, to os.remove after the delete prompt - exactly when the answer,
\* stripped and lowered, is "y"; any other answer ("", "n", "yes") ends the
\* run there, with no further call.
C18_AffirmativeAnswer ==
    \A i \in Calls("input") :
       trace[i].ok =>
          IF IsYes(trace[i].arg[2])
          THEN \/ pc = (IF trace[i].arg[1] = "save" THEN "save" ELSE "remove")
               \/ \E k \in Calls(IF trace[i].arg[1] = "save" THEN "save"
                                 ELSE "remove") : i < k
          ELSE /\ pc = "returned"
               /\ \A k \in 1..Len(trace) :
                     i < k => trace[k].op = "close"

\* Both prompts were answered " Y\n", and the source has been removed.
C18_Witness ==
    /\ \E i \in Asked("save") : trace[i].arg[2] = <<" ", "Y", "\n">>
    /\ \E i \in Asked("delete") : trace[i].arg[2] = <<" ", "Y", "\n">>
    /\ OkCalls("remove") # {}


\* C19: an AI call is about to start only if it is the first of all or a
\* pause of task_pause_time has ended since the last one; main goes from
\* every call of process_file, however it ended, to the pause, and from the
\* pause to the next file only by sleeping it through.
C19_RateLimiting ==
    /\ [](pc = "upload" => since_ai \in {"never", "paused"})
    /\ [][(mpc = "call" /\ mpc' # "call") => (Ended /\ mpc' = "pause")]_vars
    /\ [][(mpc = "pause" /\ mpc' # "pause") =>
             IF pause_time >= 0 THEN mpc' = "for" /\ since_ai' = "paused"
             ELSE mpc' = "crashed"]_vars

\* The pause was taken after a run that raised, and the next file of the
\* batch is about to be handed over.
C19_Witness ==
    /\ mpc = "for"
    /\ caught
    /\ since_ai = "paused"
    /\ matching_files # {}


\* The four fields as lines 69-72 of src/pdf-ai-annotator.py read them.
Got(d) == [k \in DOMAIN d |-> get(d, k)]

\* C20: in src/pdf-ai-annotator.py, a run whose annotation has a field empty
\* or absent, or a filename not ending in ".pdf", does not open the
\* document, does not save and does not remove the source.
C20_VariantValidation ==
    (result # NotJson /\ InvalidAnnotation(Got(result))) =>
        /\ pc \notin {"open", "open_metadata", "set_metadata", "pending_save",
                      "ask_save", "save", "ask_delete", "remove"}
        /\ Calls("open") = {}
        /\ Calls("save") = {}
        /\ Calls("remove") = {}
        /\ fs = fs_at_call


\* C21: no step of a run loses a document.  For every copy left by a run
\* that saved it and removed its source, an annotated copy of the same
\* document is still on disk after the step - also when the AI service
\* proposes a filename it proposed before or one already in the output
\* directory.  Stated for an output directory that is not the input
\* directory, where no copy is ever listed as a source (C13).
C21_NoDocumentLost ==
    [][(mpc = "call" /\ Resolve(output_dir) # Resolve(input_dir)) =>
          \A p \in relocated :
             \E q \in DOMAIN fs' :
                /\ fs'[q].doc = fs[p].doc
                /\ fs'[q].title # <<>>]_vars


\* C22: whatever validated filename the AI service proposes - an absolute
\* path, one with directory separators or ".." components - every file the
\* run saves lies directly inside the configured output directory.
C22_DestinationConfinement ==
    \A i \in OkCalls("save") :
       dirname(Resolve(trace[i].arg)) = Resolve(output_dir)


\* C23: in every run that saves, the metadata context was entered and left
\* (committed) before pdf.save is called; the save is made while the
\* document opened at line 167 is still open; and os.remove is called only
\* after that document has been closed.
C23_CommitBeforeSave ==
    /\ \A k \in Calls("save") :
          /\ \E o \in OkCalls("open") : \E m \in OkCalls("open_metadata") :
                \E c \in OkCalls("commit_metadata") :
                   o < m /\ m < c /\ c < k
          /\ \A c \in Calls("close") : k < c
    /\ pc = "save" => pdf # <<>>
    /\ \A r \in Calls("remove") :
          \E k \in OkCalls("save") : \E c \in Calls("close") : k < c /\ c < r
    /\ pc = "remove" => pdf = <<>>

\* The copy has been saved with its metadata committed, the document is
\* closed, and os.remove is about to be called.
C23_Witness ==
    /\ pc = "remove"
    /\ pdf = <<>>
    /\ \E c \in OkCalls("commit_metadata") : \E k \in OkCalls("save") :
          /\ c < k
          /\ k + 1 \in Calls("close")

====
